---- MODULE Spec2Model ----
(***************************************************************************)
(* Model of XorshiftrWide<LANES> (src/src/lib.rs): the seeding loop of     *)
(* reseed/new and the buffer filler fill_core/fill_u64_buffer.             *)
(*                                                                         *)
(* A u64 is modelled as the set of its one-bits, a subset of 0..63, so     *)
(* that shifts, xor and wrapping addition keep the full 64-bit width.      *)
(***************************************************************************)
EXTENDS Integers, Sequences, FiniteSets, TLC

\* ------------------------------------------------------------- bounds
Lanes == 2          \* the LANES const generic (16 by default in the source)
MaxLen == 5         \* longest buffer handed to fill_u64_buffer
MaxFills == 2       \* fill calls between two seedings
MaxAttempts == 2    \* attempts of the seeding loop that are explored
MaxReseeds == 1     \* reseed calls on the existing instance

\* ------------------------------------------------- program constants
WordBits == 64
DEFAULT_SHL_FIRST == FALSE
DEFAULT_SHL == 17
DEFAULT_SHR == 23

\* ------------------------------------------------------------- words
Zero == {}
WordA == {23, 63}
WordB == {0, 17, 23, 57, 63}
\* the values the entropy callback may return
Vals == {Zero, WordA, WordB}

LaneIdx == 0 .. (Lanes - 1)

\* x >> k on u64
Shr(x, k) == {b - k : b \in {c \in x : c >= k}}

\* x << k on u64: bits shifted past bit 63 are lost
Shl(x, k) == {b + k : b \in {c \in x : c + k < WordBits}}

\* x ^ y
Xor(x, y) == (x \ y) \cup (y \ x)

\* x & y
And(x, y) == x \cap y

\* x.wrapping_add(y): x + y = (x ^ y) + ((x & y) << 1), repeated until no carry
\* is left; a carry out of bit 63 is dropped by Shl
RECURSIVE WrappingAdd(_, _)
WrappingAdd(x, y) ==
    IF y = {} THEN x ELSE WrappingAdd(Xor(x, y), Shl(And(x, y), 1))

\* [[0; LANES]; 2]
ZeroState == [h \in 0 .. 1 |-> [i \in LaneIdx |-> Zero]]

ZeroSteps == [i \in LaneIdx |-> 0]

\* ------------------------------------------------------------ seeding
\* the slot written by the pos-th callback value of an attempt:
\* `for arr in &mut self.state { for ptr in arr { ... } }`
SeedSlotSwapped(p) == <<1 - (p \div Lanes), p % Lanes>>

SeedSlot(p) == <<p \div Lanes, p % Lanes>>

\* some lane's two words are the same
LaneSame(st) == \E i \in LaneIdx : st[0][i] = st[1][i]

\* some pair of lanes has the same low word or the same high word
PairSame(st) ==
    \E left \in LaneIdx : \E right \in LaneIdx :
        /\ left < right
        /\ (st[0][left] = st[0][right]) \/ (st[1][left] = st[1][right])

NeedToReseedNoLane(st) == PairSame(st)

NeedToReseedNoPair(st) == LaneSame(st)

NeedToReseedBothSame(st) ==
    \/ LaneSame(st)
    \/ \E left \in LaneIdx : \E right \in LaneIdx :
        /\ left < right
        /\ (st[0][left] = st[0][right]) /\ (st[1][left] = st[1][right])

NeedToReseedInverted(st) == ~(LaneSame(st) \/ PairSame(st))

\* the value of the `while { ...; need_to_reseed }` block
NeedToReseed(st) == LaneSame(st) \/ PairSame(st)

\* -------------------------------------------------------------- fill
LaneStepOutSum(x, y, shlFirst, shlBy, shrBy) ==
    LET a  == IF shlFirst THEN Xor(x, Shl(x, shlBy)) ELSE Xor(x, Shr(x, shrBy))
        x2 == IF shlFirst THEN Xor(a, Shr(a, shrBy)) ELSE Xor(a, Shl(a, shlBy))
    IN  [low |-> y, high |-> WrappingAdd(x2, y), out |-> WrappingAdd(x2, y)]

\* the body of `for i in 0..LANES` for one lane holding (x, y)
LaneStep(x, y, shlFirst, shlBy, shrBy) ==
    LET a  == IF shlFirst THEN Xor(x, Shl(x, shlBy)) ELSE Xor(x, Shr(x, shrBy))
        x2 == IF shlFirst THEN Xor(a, Shr(a, shrBy)) ELSE Xor(a, Shl(a, shlBy))
    IN  [low |-> y, high |-> WrappingAdd(x2, y), out |-> x2]

\* `for i in 0..LANES` from lane i up to lane upto: each lane steps once and
\* writes its word to the next buffer position
RECURSIVE LaneLoop(_, _, _, _, _, _)
LaneLoop(acc, i, upto, shlFirst, shlBy, shrBy) ==
    IF i >= upto THEN acc
    ELSE LET r == LaneStep(acc.state[0][i], acc.state[1][i], shlFirst, shlBy, shrBy)
         IN  LaneLoop([state  |-> [acc.state EXCEPT ![0][i] = r.low, ![1][i] = r.high],
                       buffer |-> Append(acc.buffer, r.out),
                       steps  |-> [acc.steps EXCEPT ![i] = @ + 1]],
                      i + 1, upto, shlFirst, shlBy, shrBy)

\* one exact-width chunk: every lane steps once, lane i writes chunk word i
FullChunk(acc, shlFirst, shlBy, shrBy) == LaneLoop(acc, 0, Lanes, shlFirst, shlBy, shrBy)

\* `for chunk in exact_width_chunks.by_ref()` over k chunks
RECURSIVE ChunksExact(_, _, _, _, _)
ChunksExact(acc, k, shlFirst, shlBy, shrBy) ==
    IF k = 0 THEN acc
    ELSE ChunksExact(FullChunk(acc, shlFirst, shlBy, shrBy), k - 1, shlFirst, shlBy, shrBy)

TailIsEmptyNonZero(n) == n % Lanes = 0 /\ n # 0

\* tail.is_empty() for a buffer of n words
TailIsEmpty(n) == n % Lanes = 0

RECURSIVE FillCore(_, _, _, _, _)

TailFillPartial(acc, qty, shlFirst, shlBy, shrBy) ==
    LaneLoop(acc, 0, qty, shlFirst, shlBy, shrBy)

TailFillLastWords(acc, qty, shlFirst, shlBy, shrBy) ==
    LET tmp == FillCore(acc.state, Lanes, shlFirst, shlBy, shrBy)
    IN  [state  |-> tmp.state,
         buffer |-> acc.buffer \o SubSeq(tmp.buffer, Lanes - qty + 1, Lanes),
         steps  |-> [i \in LaneIdx |-> acc.steps[i] + tmp.steps[i]]]

\* the remainder path: fill a temporary buffer of LANES words through
\* fill_core itself and copy its first qty words to the tail
TailFill(acc, qty, shlFirst, shlBy, shrBy) ==
    LET tmp == FillCore(acc.state, Lanes, shlFirst, shlBy, shrBy)
    IN  [state  |-> tmp.state,
         buffer |-> acc.buffer \o SubSeq(tmp.buffer, 1, qty),
         steps  |-> [i \in LaneIdx |-> acc.steps[i] + tmp.steps[i]]]

\* fill_core on a buffer of n words from state st: the state it leaves, the
\* words it writes and how often it stepped each lane
FillCore(st, n, shlFirst, shlBy, shrBy) ==
    LET full == ChunksExact([state |-> st, buffer |-> <<>>, steps |-> ZeroSteps],
                            n \div Lanes, shlFirst, shlBy, shrBy)
    IN  IF ~TailIsEmpty(n)
        THEN TailFill(full, n % Lanes, shlFirst, shlBy, shrBy)
        ELSE full

FillOnCopy(st, n) ==
    [FillCore(st, n, DEFAULT_SHL_FIRST, DEFAULT_SHL, DEFAULT_SHR) EXCEPT !.state = st]

\* fill_u64_buffer
FillU64Buffer(st, n) == FillCore(st, n, DEFAULT_SHL_FIRST, DEFAULT_SHL, DEFAULT_SHR)

\* ------------------------------------------------------------- state
VARIABLES
    state,      \* self.state: state[0] the low half, state[1] the high half
    pc,         \* "seeding" inside reseed's loop, "ready" once it has returned
    pos,        \* callback values read in the current attempt
    entropy,    \* the callback: <<"any", _>> or <<"const", v>>
    calls,      \* callback calls made by the current new/reseed call
    attempts,   \* attempts completed by the current new/reseed call
    drawn,      \* the values the callback returned in the current attempt
    reseeds,    \* reseed calls made on the instance
    origin,     \* the state the last new/reseed returned
    lens,       \* lengths of the fills since then
    out,        \* concatenation of what those fills wrote
    pre,        \* the state before the last fill
    buffer,     \* what the last fill wrote
    steps       \* how often the last fill stepped each lane

vars == <<state, pc, pos, entropy, calls, attempts, drawn, reseeds,
          origin, lens, out, pre, buffer, steps>>

fillVars == <<origin, lens, out, pre, buffer, steps>>

Sources == {<<"any", Zero>>} \cup {<<"const", v>> : v \in Vals}

\* XorshiftrWide::new: a zeroed state handed to reseed
Init ==
    /\ state = ZeroState
    /\ pc = "seeding"
    /\ pos = 0
    /\ entropy \in Sources
    /\ calls = 0
    /\ attempts = 0
    /\ drawn = <<>>
    /\ reseeds = 0
    /\ origin = ZeroState
    /\ lens = <<>>
    /\ out = <<>>
    /\ pre = ZeroState
    /\ buffer = <<>>
    /\ steps = ZeroSteps

\* `*ptr = provide_random_u64();`
Provide(v) ==
    /\ pc = "seeding"
    /\ pos < 2 * Lanes
    /\ entropy[1] = "const" => v = entropy[2]
    /\ state' = [state EXCEPT ![SeedSlot(pos)[1]][SeedSlot(pos)[2]] = v]
    /\ pos' = pos + 1
    /\ calls' = calls + 1
    /\ drawn' = Append(drawn, v)
    /\ UNCHANGED <<pc, entropy, attempts, reseeds>>
    /\ UNCHANGED fillVars

\* the checks found a degenerate state: cold(), and the loop runs again
Retry ==
    /\ pc = "seeding"
    /\ pos = 2 * Lanes
    /\ NeedToReseed(state)
    /\ attempts < MaxAttempts
    /\ attempts' = attempts + 1
    /\ pos' = 0
    /\ drawn' = <<>>
    /\ UNCHANGED <<state, pc, entropy, calls, reseeds>>
    /\ UNCHANGED fillVars

\* the checks passed: reseed (and new) returns
Return ==
    /\ pc = "seeding"
    /\ pos = 2 * Lanes
    /\ ~NeedToReseed(state)
    /\ attempts' = attempts + 1
    /\ pc' = "ready"
    /\ origin' = state
    /\ lens' = <<>>
    /\ out' = <<>>
    /\ pre' = state
    /\ buffer' = <<>>
    /\ steps' = ZeroSteps
    /\ UNCHANGED <<state, pos, entropy, calls, drawn, reseeds>>

\* the caller calls reseed on the existing instance with some callback
ReseedCall ==
    /\ pc = "ready"
    /\ reseeds < MaxReseeds
    /\ reseeds' = reseeds + 1
    /\ pc' = "seeding"
    /\ pos' = 0
    /\ calls' = 0
    /\ attempts' = 0
    /\ drawn' = <<>>
    /\ entropy' \in Sources
    /\ origin' = ZeroState
    /\ lens' = <<>>
    /\ out' = <<>>
    /\ pre' = ZeroState
    /\ buffer' = <<>>
    /\ steps' = ZeroSteps
    /\ UNCHANGED state

\* the caller calls fill_u64_buffer on a buffer of n words
Fill(n) ==
    /\ pc = "ready"
    /\ Len(lens) < MaxFills
    /\ \E r \in {FillU64Buffer(state, n)} :
           /\ state' = r.state
           /\ buffer' = r.buffer
           /\ steps' = r.steps
           /\ out' = out \o r.buffer
    /\ pre' = state
    /\ lens' = Append(lens, n)
    /\ UNCHANGED <<pc, pos, entropy, calls, attempts, drawn, reseeds, origin>>

Next ==
    \/ \E v \in Vals : Provide(v)
    \/ Retry
    \/ Return
    \/ ReseedCall
    \/ \E n \in 0 .. MaxLen : Fill(n)

Spec == Init /\ [][Next]_vars

\* ------------------------------------------------------- properties
\* the no-degeneracy condition of the seeding check, stated on its own
NoDegeneracy(st) ==
    /\ \A i \in LaneIdx : st[0][i] # st[1][i]
    /\ \A i \in LaneIdx : \A j \in LaneIdx :
          i # j => (st[0][i] # st[0][j] /\ st[1][i] # st[1][j])

Filled == pc = "ready" /\ lens # <<>>

LastLen == lens[Len(lens)]

\* lane (x, y) after k steps of the default recurrence
RECURSIVE LaneAfter(_, _, _)
LaneAfter(x, y, k) ==
    IF k = 0 THEN [low |-> x, high |-> y, out |-> x]
    ELSE LET q == LaneAfter(x, y, k - 1)
         IN  LaneStep(q.low, q.high, DEFAULT_SHL_FIRST, DEFAULT_SHL, DEFAULT_SHR)

CeilDiv(n, d) == (n + d - 1) \div d

\* the carry into bit b of x + y, by the schoolbook rule
RECURSIVE CarryInto(_, _, _)
CarryInto(x, y, b) ==
    IF b = 0 THEN FALSE
    ELSE LET xb == (b - 1) \in x
             yb == (b - 1) \in y
             cb == CarryInto(x, y, b - 1)
         IN  (xb /\ yb) \/ (xb /\ cb) \/ (yb /\ cb)

\* z = (x + y) mod 2^64, bit by bit
IsSum64(z, x, y) ==
    \A b \in 0 .. 63 :
        (b \in z) <=> (((b \in x) # (b \in y)) # CarryInto(x, y, b))

\* z = x XOR (x >> k), bit by bit
IsXorShr(z, x, k) ==
    \A b \in 0 .. 63 : (b \in z) <=> ((b \in x) # ((b + k) \in x /\ b + k <= 63))

\* z = x XOR ((x << k) mod 2^64), bit by bit
IsXorShl(z, x, k) ==
    \A b \in 0 .. 63 : (b \in z) <=> ((b \in x) # (b >= k /\ (b - k) \in x))

\* C1: whenever new or reseed returns, the state it leaves satisfies the
\* no-degeneracy condition: no lane has low = high, and no two distinct lanes
\* share a low word or share a high word.
C1_ReturnIsNonDegenerate ==
    [][(pc = "seeding" /\ pc' = "ready") => NoDegeneracy(state')]_vars

\* a reseed of a used instance has returned after a rejected attempt
C1_Witness ==
    pc = "ready" /\ lens = <<>> /\ reseeds = 1 /\ attempts = 2

\* C2 as stated: a fill of N words steps lane i exactly once per buffer
\* position p with p mod L = i, N steps in all.
C2_StepsEqualLength ==
    Filled =>
        \A i \in LaneIdx :
            steps[i] = Cardinality({p \in 0 .. (LastLen - 1) : p % Lanes = i})

\* C2 amended: a fill of N words steps every lane exactly ceil(N/L) times
\* (L * ceil(N/L) steps in all, which is N only when L divides N), and the
\* word at position p is the output of lane p mod L at its (p div L + 1)-th
\* step.
C2_StepsRoundedUp ==
    Filled =>
        /\ \A i \in LaneIdx :
              /\ steps[i] = CeilDiv(LastLen, Lanes)
              /\ state[0][i] = LaneAfter(pre[0][i], pre[1][i], steps[i]).low
              /\ state[1][i] = LaneAfter(pre[0][i], pre[1][i], steps[i]).high
        /\ Len(buffer) = LastLen
        /\ \A p \in 0 .. (LastLen - 1) :
              buffer[p + 1] =
                  LaneAfter(pre[0][p % Lanes], pre[1][p % Lanes], (p \div Lanes) + 1).out

\* a fill whose length is not a multiple of the lane count has run
C2_Witness ==
    Filled /\ LastLen % Lanes # 0 /\ LastLen > Lanes

\* C3 as stated: a fill of a words followed by a fill of b words writes what
\* one fill of a+b words from the same state writes.
C3_Additive ==
    (pc = "ready" /\ Len(lens) = 2) =>
        out = FillU64Buffer(origin, lens[1] + lens[2]).buffer

\* C3 amended: a fill of a words followed by a fill of b words writes what one
\* fill of a+b words from the same state writes whenever a is a multiple of L.
C3_AdditiveOnFullGroups ==
    (pc = "ready" /\ Len(lens) = 2 /\ lens[1] % Lanes = 0) =>
        out = FillU64Buffer(origin, lens[1] + lens[2]).buffer

\* two fills, the first of one full group, the second with a remainder
C3_Witness ==
    pc = "ready" /\ Len(lens) = 2 /\ lens[1] = Lanes /\ lens[2] % Lanes # 0

\* C4: a fill of L+k words (0 < k < L) writes in its first L words what a
\* fill of L words from the same state writes, and in its last k words the
\* first k words a further fill of L words would write from the state
\* reached after those first L words.
C4_TailEquivalence ==
    (Filled /\ Lanes < LastLen /\ LastLen < 2 * Lanes) =>
        LET first == FillU64Buffer(pre, Lanes)
            more  == FillU64Buffer(first.state, Lanes)
        IN  /\ SubSeq(buffer, 1, Lanes) = first.buffer
            /\ SubSeq(buffer, Lanes + 1, LastLen) =
                  SubSeq(more.buffer, 1, LastLen - Lanes)

\* a fill of L+1 words has run
C4_Witness ==
    Filled /\ LastLen = Lanes + 1 /\ Len(buffer) = Lanes + 1

\* C5: the callback is read in attempts of exactly 2*L calls; new and reseed
\* return after the first attempt whose values pass the check, after at least
\* one attempt, and the state returned is low[i] = i-th value, high[i] =
\* (L+i)-th value of that last attempt.
C5_AttemptsOfTwoL ==
    /\ pc = "seeding" =>
          /\ calls = 2 * Lanes * attempts + pos
          /\ Len(drawn) = pos
          /\ (attempts > 0 /\ pos = 0) => ~NoDegeneracy(state)
    /\ (pc = "ready" /\ lens = <<>>) =>
          /\ attempts >= 1
          /\ calls = 2 * Lanes * attempts
          /\ Len(drawn) = 2 * Lanes
          /\ NoDegeneracy(state)
          /\ \A i \in LaneIdx :
                /\ state[0][i] = drawn[i + 1]
                /\ state[1][i] = drawn[Lanes + i + 1]

\* a reseed over a used state has returned on its second attempt
C5_Witness ==
    /\ pc = "ready" /\ lens = <<>> /\ reseeds = 1 /\ attempts = 2
    /\ calls = 4 * Lanes

\* C6: a fill of a zero-length buffer steps no lane and leaves both halves
\* of the state as they were.
C6_ZeroLengthNoOp ==
    (Filled /\ LastLen = 0) =>
        /\ state = pre
        /\ steps = ZeroSteps
        /\ buffer = <<>>

\* a zero-length fill has run on a state an earlier fill had advanced
C6_Witness ==
    pc = "ready" /\ Len(lens) = 2 /\ lens[1] # 0 /\ lens[2] = 0 /\ state # origin

\* C7: with a callback that returns the same value on every call, new and
\* reseed never return: every complete attempt is rejected and the loop
\* starts the next attempt of 2*L calls.
C7_ConstantSourceNeverReturns ==
    [][(pc = "seeding" /\ entropy[1] = "const") =>
          /\ pc' = "seeding"
          /\ pos < 2 * Lanes => (calls' = calls + 1 /\ attempts' = attempts)
          /\ pos = 2 * Lanes => (pos' = 0 /\ attempts' = attempts + 1 /\ calls' = calls)]_vars

\* a constant callback has been read for a whole attempt after a rejected one
C7_Witness ==
    pc = "seeding" /\ entropy[1] = "const" /\ attempts >= 1 /\ pos = 2 * Lanes

\* C8: for a fill of exactly L words through fill_u64_buffer, with
\* t = low[i] XOR (low[i] >> 23) and x' = t XOR ((t << 17) mod 2^64), the word
\* at position i is x', the new low[i] is the old high[i] and the new high[i]
\* is (x' + old high[i]) mod 2^64.
C8_DefaultRecurrence ==
    (Filled /\ LastLen = Lanes) =>
        \A i \in LaneIdx :
            /\ \E t \in {Xor(pre[0][i], Shr(pre[0][i], 23))} :
                  /\ IsXorShr(t, pre[0][i], 23)
                  /\ IsXorShl(buffer[i + 1], t, 17)
            /\ state[0][i] = pre[1][i]
            /\ IsSum64(state[1][i], buffer[i + 1], pre[1][i])

\* a fill of L words has stepped a lane whose shift loses high bits and whose
\* addition wraps
C8_Witness ==
    /\ Filled /\ LastLen = Lanes
    /\ \E i \in LaneIdx :
          /\ pre[0][i] = WordA /\ pre[1][i] = WordB
          /\ 63 \in buffer[i + 1] /\ 63 \notin state[1][i]

\* C9 as stated: the no-degeneracy condition holds in every state a caller
\* can reach, after any sequence of fills.
C9_AlwaysNonDegenerate ==
    pc = "ready" => NoDegeneracy(state)

\* C9 amended: the no-degeneracy condition holds in the state new or reseed
\* returns and as long as only zero-length fills have followed; a fill of at
\* least one word may break it.
C9_NonDegenerateUntilFilled ==
    (pc = "ready" /\ \A k \in 1 .. Len(lens) : lens[k] = 0) => NoDegeneracy(state)

\* zero-length fills have run on a freshly reseeded state
C9_Witness ==
    pc = "ready" /\ lens = <<0, 0>> /\ reseeds = 1

\* C10: after any sequence of fills from a state the seeding check accepted,
\* no two distinct lanes hold the same (low, high) pair.
C10_LanesStayDistinct ==
    pc = "ready" =>
        \A i \in LaneIdx : \A j \in LaneIdx :
            i # j => <<state[0][i], state[1][i]>> # <<state[0][j], state[1][j]>>

\* fills, the last with a remainder, have led two lanes to share a high word
C10_Witness ==
    /\ pc = "ready" /\ Len(lens) = 2 /\ LastLen % Lanes # 0
    /\ \E i \in LaneIdx : \E j \in LaneIdx : i # j /\ state[1][i] = state[1][j]

====
